---- MODULE Spec2Model ----
(***************************************************************************)
(* The analysis scripts of the repository, one run of one script per       *)
(* behaviour:                                                              *)
(*   scripts/find_adam.py        best record -> genome -> adam_genome.json *)
(*   scripts/plot_landscape.py   generation filter -> elite subset -> chart*)
(*   scripts/plot_interactive.py generation filter -> chart                *)
(*   plotter_landscape.py        generation filter -> chart                *)
(* A DataFrame is a sequence of rows; a row is a function from column name *)
(* to value and carries its pandas index label under "label".  Doubles are *)
(* represented by integer codes that keep their order and equality.        *)
(***************************************************************************)
EXTENDS Integers, Sequences, FiniteSets, TLC

\* ---------------------------------------------------------------- bounds
MaxRows == 3
MaxFitness == 2
\* head(500) of plot_landscape.py:22, scaled to the table sizes explored
EliteK == 2

\* --------------------------------------------------------------- constants
\* the generation the filter keeps: df['winning_gen'] == 1
TargetGen == 1

\* dominant-generation tags met in a table: the target and another one
Gens == {1, 2}

QuarkKeys ==
  <<"mass_up_quark", "mass_down_quark", "mass_strange_quark",
    "mass_charm_quark", "mass_bottom_quark", "mass_top_quark">>

DefaultKeys ==
  <<"G", "e", "alpha_s", "alpha_w", "mass_electron", "mass_muon", "mass_tauon">>

\* insertion order of the dict literal, which is the order json.dump writes
GenomeKeys == DefaultKeys \o QuarkKeys

Range(s) == {s[i] : i \in DOMAIN s}

AllColumns == {"fitness", "winning_gen"} \cup Range(QuarkKeys)

\* ------------------------------------------------------------------ inputs
\* two assignments of the six quark masses, the second with up and down
\* exchanged, so that no two columns of a row hold the same value
MassProfiles ==
  { [mass_up_quark |-> 1, mass_down_quark |-> 2, mass_strange_quark |-> 3,
     mass_charm_quark |-> 4, mass_bottom_quark |-> 5, mass_top_quark |-> 6],
    [mass_up_quark |-> 2, mass_down_quark |-> 1, mass_strange_quark |-> 3,
     mass_charm_quark |-> 4, mass_bottom_quark |-> 5, mass_top_quark |-> 7] }

CsvRow(f, g, m) ==
  [c \in AllColumns |->
     IF c = "fitness" THEN f ELSE IF c = "winning_gen" THEN g ELSE m[c]]

CsvRows ==
  {CsvRow(f, g, m) : f \in 1..MaxFitness, g \in Gens, m \in MassProfiles}

CsvTables == UNION {[1..n -> CsvRows] : n \in 0..MaxRows}

Scripts == {"find_adam", "plot_landscape", "plot_interactive", "plotter_landscape"}
PlotScripts == Scripts \ {"find_adam"}

\* headers of the file: complete, or with one required column absent
Headers ==
  {AllColumns, AllColumns \ {"fitness"}, AllColumns \ {"winning_gen"},
   AllColumns \ {"mass_top_quark"}}

\* dtype read_csv infers for each column
FloatDtypes == [c \in AllColumns |-> "float64"]
IntDtypes == [c \in AllColumns |-> "int64"]
QuarkTextDtypes == [FloatDtypes EXCEPT !["mass_up_quark"] = "object"]
FitnessTextDtypes == [FloatDtypes EXCEPT !["fitness"] = "object"]
DtypeCases == {FloatDtypes, IntDtypes, QuarkTextDtypes, FitnessTextDtypes}

VARIABLES
  script,          \* the script this run executes
  file_exists,     \* whether the csv path resolves
  csv,             \* the rows of the file
  header,          \* the columns of the file
  dtypes,          \* the dtype of each column
  pc,              \* position of the run
  df,              \* the ingested table
  adam,            \* find_adam.py: the selected record
  adam_genome,     \* find_adam.py: the reconstructed genome
  artifact_exists, \* adam_genome.json exists
  artifact,        \* the <<key, value>> pairs written to adam_genome.json
  df_gen1,         \* the filtered table
  df_elite,        \* plot_landscape.py: the elite subset
  best_universe,   \* plot_landscape.py: df_elite.iloc[0]
  chart,           \* a figure was produced
  stdout,          \* the diagnostics printed
  exit_status      \* the status of the process once it has ended

vars ==
  <<script, file_exists, csv, header, dtypes, pc, df, adam, adam_genome,
    artifact_exists, artifact, df_gen1, df_elite, best_universe, chart,
    stdout, exit_status>>

\* ------------------------------------------------------------- ingestion
\* os.path.join(script_dir, '..', 'landscape_data.csv')
csv_path == "<script_dir>/../landscape_data.csv"

\* pd.read_csv: the columns of the header, a RangeIndex 0..n-1 as labels
read_csv(rows, cols) ==
  [i \in 1..Len(rows) |->
     [c \in cols \cup {"label"} |-> IF c = "label" THEN i - 1 ELSE rows[i][c]]]

\* exit() raises SystemExit(None): the interpreter ends with status 0;
\* an uncaught exception ends it with status 1
ExitStatus(how) == IF how = "exit()" THEN 0 ELSE 1

Init ==
  /\ script \in Scripts
  /\ file_exists \in BOOLEAN
  /\ csv \in CsvTables
  /\ header \in Headers
  /\ dtypes \in DtypeCases
  /\ file_exists = FALSE => (csv = <<>> /\ header = AllColumns)
  /\ (dtypes # FloatDtypes) =>
       (script = "find_adam" /\ file_exists /\ header = AllColumns)
  /\ pc = "start"
  /\ df = <<>>
  /\ adam = <<>>
  /\ adam_genome = <<>>
  /\ artifact_exists = FALSE
  /\ artifact = <<>>
  /\ df_gen1 = <<>>
  /\ df_elite = <<>>
  /\ best_universe = <<>>
  /\ chart = FALSE
  /\ stdout = <<>>
  /\ exit_status = 0

\* ------------------------------------------------- find_adam.py, by step
FileNotFoundAdam == [msg |-> "FileNotFound", names |-> csv_path]
AdamFound == [msg |-> "Adan Encontrado", names |-> "fitness"]
GenomeSaved == [msg |-> "Genoma guardado", names |-> "adam_genome.json"]

Crash(error) ==
  /\ pc' = "crashed"
  /\ exit_status' = ExitStatus(error)

\* lines 7-21: read the file, or report that it is missing and exit()
AdamRead ==
  /\ script = "find_adam"
  /\ pc = "start"
  /\ IF file_exists
       THEN /\ df' = read_csv(csv, header)
            /\ pc' = "loaded"
            /\ UNCHANGED <<stdout, exit_status>>
       ELSE /\ stdout' = Append(stdout, FileNotFoundAdam)
            /\ pc' = "exited"
            /\ exit_status' = ExitStatus("exit()")
            /\ UNCHANGED df
  /\ UNCHANGED <<script, file_exists, csv, header, dtypes, adam, adam_genome,
                 artifact_exists, artifact, df_gen1, df_elite, best_universe,
                 chart>>

idxmax_last(T, col) ==
  LET i == CHOOSE i \in DOMAIN T :
             /\ \A j \in DOMAIN T : T[j][col] <= T[i][col]
             /\ \A j \in DOMAIN T : j > i => T[j][col] < T[i][col]
  IN  T[i]["label"]

idxmin(T, col) ==
  LET i == CHOOSE i \in DOMAIN T :
             /\ \A j \in DOMAIN T : T[j][col] >= T[i][col]
             /\ \A j \in DOMAIN T : j < i => T[j][col] > T[i][col]
  IN  T[i]["label"]

\* Series.idxmax(): the label of the first occurrence of the maximum
idxmax(T, col) ==
  LET i == CHOOSE i \in DOMAIN T :
             /\ \A j \in DOMAIN T : T[j][col] <= T[i][col]
             /\ \A j \in DOMAIN T : j < i => T[j][col] < T[i][col]
  IN  T[i]["label"]

\* df.loc[label]: the row that carries the label
loc(T, label) == CHOOSE r \in Range(T) : r["label"] = label

\* line 25 (and the prints of 27-29): KeyError without the column, TypeError
\* on a non-numeric column, ValueError on an empty one
AdamSelect ==
  /\ script = "find_adam"
  /\ pc = "loaded"
  /\ IF "fitness" \notin header THEN Crash("KeyError") /\ UNCHANGED <<adam, stdout>>
     ELSE IF dtypes["fitness"] = "object" THEN Crash("TypeError") /\ UNCHANGED <<adam, stdout>>
     ELSE IF Len(df) = 0 THEN Crash("ValueError") /\ UNCHANGED <<adam, stdout>>
     ELSE /\ adam' = loc(df, idxmax(df, "fitness"))
          /\ stdout' = Append(stdout, AdamFound)
          /\ pc' = "selected"
          /\ UNCHANGED exit_status
  /\ UNCHANGED <<script, file_exists, csv, header, dtypes, df, adam_genome,
                 artifact_exists, artifact, df_gen1, df_elite, best_universe,
                 chart>>

reconstruct_swapped(rec) ==
  [G |-> "6.67430e-11", e |-> "1.60217663e-19", alpha_s |-> "1.0",
   alpha_w |-> "1.0e-6", mass_electron |-> "9.10938356e-31",
   mass_muon |-> "1.883531594e-28", mass_tauon |-> "3.16754e-27",
   mass_up_quark |-> rec["mass_down_quark"],
   mass_down_quark |-> rec["mass_up_quark"],
   mass_strange_quark |-> rec["mass_strange_quark"],
   mass_charm_quark |-> rec["mass_charm_quark"],
   mass_bottom_quark |-> rec["mass_bottom_quark"],
   mass_top_quark |-> rec["mass_top_quark"]]

reconstruct_pasted(rec) ==
  [G |-> "6.67430e-11", e |-> "1.60217663e-19", alpha_s |-> "1.0",
   alpha_w |-> "1.0", mass_electron |-> "9.10938356e-31",
   mass_muon |-> "1.883531594e-28", mass_tauon |-> "3.16754e-27",
   mass_up_quark |-> rec["mass_up_quark"],
   mass_down_quark |-> rec["mass_down_quark"],
   mass_strange_quark |-> rec["mass_strange_quark"],
   mass_charm_quark |-> rec["mass_charm_quark"],
   mass_bottom_quark |-> rec["mass_bottom_quark"],
   mass_top_quark |-> rec["mass_top_quark"]]

\* lines 33-50: the dict literal
reconstruct(rec) ==
  [G |-> "6.67430e-11", e |-> "1.60217663e-19", alpha_s |-> "1.0",
   alpha_w |-> "1.0e-6", mass_electron |-> "9.10938356e-31",
   mass_muon |-> "1.883531594e-28", mass_tauon |-> "3.16754e-27",
   mass_up_quark |-> rec["mass_up_quark"],
   mass_down_quark |-> rec["mass_down_quark"],
   mass_strange_quark |-> rec["mass_strange_quark"],
   mass_charm_quark |-> rec["mass_charm_quark"],
   mass_bottom_quark |-> rec["mass_bottom_quark"],
   mass_top_quark |-> rec["mass_top_quark"]]

\* lines 33-50: adam['<column>'] raises KeyError when the column is absent
AdamReconstruct ==
  /\ script = "find_adam"
  /\ pc = "selected"
  /\ IF Range(QuarkKeys) \subseteq header
       THEN /\ adam_genome' = reconstruct(adam)
            /\ pc' = "reconstructed"
            /\ UNCHANGED exit_status
       ELSE /\ Crash("KeyError")
            /\ UNCHANGED adam_genome
  /\ UNCHANGED <<script, file_exists, csv, header, dtypes, df, adam,
                 artifact_exists, artifact, df_gen1, df_elite, best_universe,
                 chart, stdout>>

\* dtype of the row Series df.loc[label]: object as soon as one column is,
\* int64 when every column is, float64 otherwise
row_dtype(dt, cols) ==
  IF \E c \in cols : dt[c] = "object" THEN "object"
  ELSE IF \A c \in cols : dt[c] = "int64" THEN "int64"
  ELSE "float64"

\* Python type of adam[c]: an object row keeps each cell's own type
cell_type(dt, cols, c) ==
  IF row_dtype(dt, cols) = "object"
    THEN IF dt[c] = "object" THEN "str"
         ELSE IF dt[c] = "int64" THEN "numpy.int64" ELSE "numpy.float64"
  ELSE IF row_dtype(dt, cols) = "int64" THEN "numpy.int64"
  ELSE "numpy.float64"

\* Python type of the value the genome holds under key k
value_type(dt, cols, k) ==
  IF k \in Range(DefaultKeys) THEN "float" ELSE cell_type(dt, cols, k)

\* json's encoder writes float (numpy.float64 is a subclass of it) and str,
\* and raises TypeError on any other scalar object
json_serializable(t) == t \in {"float", "numpy.float64", "str"}

\* json.dump(obj, f, indent=4): the pairs are written in insertion order, one
\* chunk after the other; the first value the encoder rejects raises
\* TypeError, the pairs before it and its own key having been written
json_dump(obj, dt, cols) ==
  LET bad == {i \in DOMAIN GenomeKeys :
                ~json_serializable(value_type(dt, cols, GenomeKeys[i]))}
      first == CHOOSE i \in bad : \A j \in bad : i <= j
      n == IF bad = {} THEN Len(GenomeKeys) ELSE first - 1
      pairs == [i \in 1..n |-> <<GenomeKeys[i], obj[GenomeKeys[i]]>>]
  IN  [written |-> IF bad = {} THEN pairs
                   ELSE Append(pairs, <<GenomeKeys[first]>>),
       raised |-> bad # {}]

\* lines 53-56: open(..., 'w') creates the file, json.dump fills it, the
\* with block closes it whether or not json.dump raised
AdamExport ==
  /\ script = "find_adam"
  /\ pc = "reconstructed"
  /\ LET out == json_dump(adam_genome, dtypes, header)
     IN  /\ artifact_exists' = TRUE
         /\ artifact' = out.written
         /\ IF out.raised
              THEN Crash("TypeError") /\ UNCHANGED stdout
              ELSE /\ stdout' = Append(stdout, GenomeSaved)
                   /\ pc' = "done"
                   /\ UNCHANGED exit_status
  /\ UNCHANGED <<script, file_exists, csv, header, dtypes, df, adam,
                 adam_genome, df_gen1, df_elite, best_universe, chart>>

\* ------------------------------------------------ the plot scripts, by step
FileNotFoundPlot == [msg |-> "FileNotFound", names |-> "landscape_data.csv"]
EmptyResult == [msg |-> "EmptyResult", names |-> TargetGen]

\* plot_landscape.py 9-13, plot_interactive.py 8-12, plotter_landscape.py 7-11
PlotRead ==
  /\ script \in PlotScripts
  /\ pc = "start"
  /\ IF file_exists
       THEN /\ df' = read_csv(csv, header)
            /\ pc' = "loaded"
            /\ UNCHANGED <<stdout, exit_status>>
       ELSE /\ stdout' = Append(stdout, FileNotFoundPlot)
            /\ pc' = "exited"
            /\ exit_status' = ExitStatus("exit()")
            /\ UNCHANGED df
  /\ UNCHANGED <<script, file_exists, csv, header, dtypes, adam, adam_genome,
                 artifact_exists, artifact, df_gen1, df_elite, best_universe,
                 chart>>

filter_skip_first(T, col, g) ==
  LET kept == SelectSeq(T, LAMBDA r : r[col] = g)
  IN  IF kept = <<>> THEN kept ELSE Tail(kept)

\* df[df[col] == g]: the rows whose mask is True, in table order, as a new
\* table
filter(T, col, g) == SelectSeq(T, LAMBDA r : r[col] = g)

\* plot_landscape.py 15, plot_interactive.py 14, plotter_landscape.py 14
PlotFilter ==
  /\ script \in PlotScripts
  /\ pc = "loaded"
  /\ IF "winning_gen" \in header
       THEN /\ df_gen1' = filter(df, "winning_gen", TargetGen)
            /\ pc' = "filtered"
            /\ UNCHANGED exit_status
       ELSE /\ Crash("KeyError")
            /\ UNCHANGED df_gen1
  /\ UNCHANGED <<script, file_exists, csv, header, dtypes, df, adam,
                 adam_genome, artifact_exists, artifact, df_elite,
                 best_universe, chart, stdout>>

empty_never(T) == FALSE

\* DataFrame.empty
empty(T) == Len(T) = 0

\* plot_landscape.py 17-19, plot_interactive.py 16-18,
\* plotter_landscape.py 16-18
PlotEmptyCheck ==
  /\ script \in PlotScripts
  /\ pc = "filtered"
  /\ IF empty(df_gen1)
       THEN /\ stdout' = Append(stdout, EmptyResult)
            /\ pc' = "exited"
            /\ exit_status' = ExitStatus("exit()")
       ELSE /\ pc' = "nonempty"
            /\ UNCHANGED <<stdout, exit_status>>
  /\ UNCHANGED <<script, file_exists, csv, header, dtypes, df, adam,
                 adam_genome, artifact_exists, artifact, df_gen1, df_elite,
                 best_universe, chart>>

Perms(n) ==
  {p \in [1..n -> 1..n] : \A i, j \in 1..n : p[i] = p[j] => i = j}

sort_values_ascending(T, col) ==
  {[i \in 1..Len(T) |-> T[p[i]]] :
     p \in {q \in Perms(Len(T)) :
              \A i, j \in 1..Len(T) : i < j => T[q[i]][col] <= T[q[j]][col]}}

\* sort_values(by=col, ascending=False) with the default kind='quicksort',
\* which is not a stable sort: every arrangement of the rows that is
\* descending in col is a possible result, rows of equal col in any order
sort_values(T, col) ==
  {[i \in 1..Len(T) |-> T[p[i]]] :
     p \in {q \in Perms(Len(T)) :
              \A i, j \in 1..Len(T) : i < j => T[q[i]][col] >= T[q[j]][col]}}

\* DataFrame.head(n): the first n rows, all of them when there are fewer
head(T, n) == SubSeq(T, 1, IF n < Len(T) THEN n ELSE Len(T))

\* plot_landscape.py 22-24; iloc[0] raises IndexError on an empty table
LandscapeElite ==
  /\ script = "plot_landscape"
  /\ pc = "nonempty"
  /\ IF "fitness" \notin header
       THEN Crash("KeyError") /\ UNCHANGED <<df_elite, best_universe>>
     ELSE \E sorted \in sort_values(df_gen1, "fitness") :
            /\ df_elite' = head(sorted, EliteK)
            /\ IF Len(sorted) = 0
                 THEN Crash("IndexError") /\ UNCHANGED best_universe
                 ELSE /\ best_universe' = sorted[1]
                      /\ pc' = "selected"
                      /\ UNCHANGED exit_status
  /\ UNCHANGED <<script, file_exists, csv, header, dtypes, df, adam,
                 adam_genome, artifact_exists, artifact, df_gen1, chart,
                 stdout>>

ChartColumns == {"mass_up_quark", "mass_down_quark", "fitness"}

\* plot_landscape.py 28-84, plot_interactive.py 20-70,
\* plotter_landscape.py 20-55: the figure is drawn from df_gen1
PlotChart ==
  /\ script \in PlotScripts
  /\ pc = IF script = "plot_landscape" THEN "selected" ELSE "nonempty"
  /\ IF ChartColumns \subseteq header
       THEN /\ chart' = TRUE
            /\ pc' = "done"
            /\ UNCHANGED exit_status
       ELSE /\ Crash(IF script = "plot_interactive" THEN "ValueError" ELSE "KeyError")
            /\ UNCHANGED chart
  /\ UNCHANGED <<script, file_exists, csv, header, dtypes, df, adam,
                 adam_genome, artifact_exists, artifact, df_gen1, df_elite,
                 best_universe, stdout>>

Next ==
  \/ AdamRead
  \/ AdamSelect
  \/ AdamReconstruct
  \/ AdamExport
  \/ PlotRead
  \/ PlotFilter
  \/ PlotEmptyCheck
  \/ LandscapeElite
  \/ PlotChart

Spec == Init /\ [][Next]_vars

\* ------------------------------------------------------------ properties
Min(a, b) == IF a < b THEN a ELSE b

\* find_adam.py got past line 25
AdamSelected == script = "find_adam" /\ stdout # <<>> /\ stdout[1] = AdamFound

\* find_adam.py got past line 50
GenomeBuilt ==
  script = "find_adam" /\ (pc \in {"reconstructed", "done"} \/ artifact_exists)

\* plot_landscape.py got past line 24
EliteDone == script = "plot_landscape" /\ pc \in {"selected", "done"}

\* a plot script evaluated the generation filter
FilterRan ==
  /\ script \in PlotScripts
  /\ file_exists
  /\ "winning_gen" \in header
  /\ pc \notin {"start", "loaded"}

\* C1: the record find_adam.py selects has a fitness no row of the table
\* exceeds, and it is the first row of the table, in table order, that has
\* that fitness.
C1_BestRecordIsFirstMaximum ==
  AdamSelected =>
    /\ \A i \in DOMAIN df : adam["fitness"] >= df[i]["fitness"]
    /\ \E i \in DOMAIN df :
         /\ adam = df[i]
         /\ \A j \in DOMAIN df : j < i => df[j]["fitness"] < adam["fitness"]

\* a lower row first, then two rows that share the maximum: the earlier of
\* the two is selected
C1_Witness ==
  /\ AdamSelected
  /\ Len(df) = 3
  /\ df[1]["fitness"] < df[2]["fitness"]
  /\ df[2]["fitness"] = df[3]["fitness"]
  /\ adam["label"] = 1

\* C2: each of the six quark-mass fields of the genome equals the field of
\* the same name of the selected record.
C2_QuarkFieldsCopied ==
  GenomeBuilt =>
    \A i \in DOMAIN QuarkKeys : adam_genome[QuarkKeys[i]] = adam[QuarkKeys[i]]

\* rows [(fitness low, up = 1), (fitness high, up = 2)]: row 2 is selected
\* and the genome carries its masses
C2_Witness ==
  /\ GenomeBuilt
  /\ Len(df) = 2
  /\ df[1]["fitness"] < df[2]["fitness"]
  /\ df[1]["mass_up_quark"] = 1
  /\ df[2]["mass_up_quark"] = 2
  /\ adam_genome["mass_up_quark"] = 2
  /\ adam_genome["mass_down_quark"] = 1

\* the defaults as the claim states them
ClaimedDefaults ==
  [G |-> "6.67430e-11", e |-> "1.60217663e-19", alpha_s |-> "1.0",
   alpha_w |-> "1.0e-6", mass_electron |-> "9.10938356e-31",
   mass_muon |-> "1.883531594e-28", mass_tauon |-> "3.16754e-27"]

\* C3: whatever record was selected, the genome has exactly the thirteen
\* fields, and its seven non-quark fields hold the fixed defaults.
C3_GenomeTotalWithFixedDefaults ==
  GenomeBuilt =>
    /\ DOMAIN adam_genome = Range(GenomeKeys)
    /\ Cardinality(DOMAIN adam_genome) = Len(DefaultKeys) + Len(QuarkKeys)
    /\ \A i \in DOMAIN DefaultKeys :
         adam_genome[DefaultKeys[i]] = ClaimedDefaults[DefaultKeys[i]]

\* a genome built from a record of the second mass profile, selected from a
\* table that also holds the first
C3_Witness ==
  /\ GenomeBuilt
  /\ adam["mass_top_quark"] = 7
  /\ \E i \in DOMAIN df : df[i]["mass_top_quark"] = 6
  /\ adam_genome["G"] = "6.67430e-11"

NonIncreasing(T, col) ==
  \A i, j \in DOMAIN T : i < j => T[i][col] >= T[j][col]

StrictlyDecreasing(T, col) ==
  \A i, j \in DOMAIN T : i < j => T[i][col] > T[j][col]

\* C4, as amended: the elite subset has min(K, |T|) records and is sorted
\* descending by fitness, records of equal fitness being adjacent (each
\* record's fitness is greater than or equal to that of the record after it).
C4_EliteSizeAndDescending ==
  EliteDone =>
    /\ Len(df_elite) = Min(EliteK, Len(df_gen1))
    /\ NonIncreasing(df_elite, "fitness")

\* C4, as stated: the elite subset is strictly descending by fitness.
C4_EliteStrictlyDescending ==
  EliteDone =>
    /\ Len(df_elite) = Min(EliteK, Len(df_gen1))
    /\ StrictlyDecreasing(df_elite, "fitness")

\* more filtered rows than K, two of the kept ones of equal fitness
C4_Witness ==
  /\ EliteDone
  /\ Len(df_gen1) > EliteK
  /\ Len(df_elite) = EliteK
  /\ \E i, j \in DOMAIN df_elite :
       i < j /\ df_elite[i]["fitness"] = df_elite[j]["fitness"]
  /\ \E i \in DOMAIN df_gen1 : df_gen1[i]["fitness"] < df_elite[1]["fitness"]

\* C5: filtering the filtered table again on the same generation returns it
\* unchanged, for the generation of the scripts and for every other one, and
\* the ingested table is still the table that was read.
C5_FilterIdempotent ==
  FilterRan =>
    /\ filter(df_gen1, "winning_gen", TargetGen) = df_gen1
    /\ \A g \in Gens :
         filter(filter(df, "winning_gen", g), "winning_gen", g)
           = filter(df, "winning_gen", g)
    /\ df = read_csv(csv, header)

\* the filter dropped a row and kept two
C5_Witness ==
  /\ FilterRan
  /\ Len(df) = 3
  /\ Len(df_gen1) = 2
  /\ df[1]["winning_gen"] # TargetGen

\* C6: when the filter yields no row, the run is at the emptiness test or
\* has exited on it with the diagnostic that names the target generation,
\* no chart was produced and no selection made; selection and chart are only
\* reached with a nonempty filtered table.
C6_EmptyResultExitsBeforeSelection ==
  /\ (FilterRan /\ Len(df_gen1) = 0) =>
       /\ pc \in {"filtered", "exited"}
       /\ chart = FALSE
       /\ Len(df_elite) = 0
       /\ pc = "exited" =>
            /\ stdout = <<EmptyResult>>
            /\ stdout[1]["names"] = TargetGen
  /\ (script \in PlotScripts /\ (chart \/ pc \in {"nonempty", "selected", "done"})) =>
       Len(df_gen1) > 0

\* a table with rows, none of generation 1: the run has exited
C6_Witness ==
  /\ FilterRan
  /\ Len(df) = MaxRows
  /\ Len(df_gen1) = 0
  /\ pc = "exited"
  /\ stdout = <<EmptyResult>>

\* C7, as stated: a run of find_adam.py that ends in a fatal condition leaves
\* no adam_genome.json, whole or partial; on a missing file the diagnostic
\* names the path and nothing was selected.
C7_NoArtifactOnFailure ==
  (script = "find_adam" /\ pc \in {"exited", "crashed"}) =>
    /\ ~artifact_exists
    /\ artifact = <<>>
    /\ pc = "exited" => (stdout = <<FileNotFoundAdam>> /\ ~AdamSelected)

\* C8, as stated: a run that ends on a missing file or an empty filtered
\* table has printed its diagnostic and ends with a nonzero status.
C8_FatalExitIsNonzero ==
  pc = "exited" =>
    /\ stdout # <<>>
    /\ stdout[Len(stdout)] \in {FileNotFoundAdam, FileNotFoundPlot, EmptyResult}
    /\ exit_status # 0

\* the first row of maximum fitness of the table as read
RawBest ==
  LET T == read_csv(csv, header)
      i == CHOOSE i \in DOMAIN T :
             /\ \A j \in DOMAIN T : T[j]["fitness"] <= T[i]["fitness"]
             /\ \A j \in DOMAIN T : j < i => T[j]["fitness"] < T[i]["fitness"]
  IN  T[i]

\* the value adam_genome.json holds under key k
Exported(k) ==
  LET i == CHOOSE i \in DOMAIN artifact : artifact[i][1] = k
  IN  artifact[i][2]

\* C9, as amended: find_adam.py applies no generation filter; the exported
\* genome carries the quark masses of the maximum-fitness record of the raw
\* ingested table, whatever the winning_gen of that record.
C9_ExportedFromRawMaximum ==
  (script = "find_adam" /\ pc = "done") =>
    /\ Len(artifact) = Len(GenomeKeys)
    /\ \A i \in DOMAIN QuarkKeys : Exported(QuarkKeys[i]) = RawBest[QuarkKeys[i]]

\* C9, as stated: the exported genome comes from a record of the target
\* generation, the maximum-fitness record of the filtered table.
C9_ExportedFromFilteredMaximum ==
  (script = "find_adam" /\ pc = "done" /\ "winning_gen" \in header) =>
    /\ adam["winning_gen"] = TargetGen
    /\ LET T == filter(df, "winning_gen", TargetGen)
       IN  /\ Len(T) > 0
           /\ adam = loc(T, idxmax(T, "fitness"))

\* an export whose record is not of the target generation, from a table
\* that holds a record of the target generation
C9_Witness ==
  /\ script = "find_adam"
  /\ pc = "done"
  /\ "winning_gen" \in header
  /\ adam["winning_gen"] # TargetGen
  /\ \E i \in DOMAIN df : df[i]["winning_gen"] = TargetGen
  /\ Exported("mass_up_quark") = adam["mass_up_quark"]

\* C10, as stated: records of equal fitness appear in the elite subset in
\* table order, the earlier one is the one kept when K cuts between them, and
\* best_universe is the first maximum of the filtered table.
C10_EliteTiesInTableOrder ==
  EliteDone =>
    /\ \A i, j \in DOMAIN df_elite :
         (i < j /\ df_elite[i]["fitness"] = df_elite[j]["fitness"])
           => df_elite[i]["label"] < df_elite[j]["label"]
    /\ \A i \in DOMAIN df_elite : \A j \in DOMAIN df_gen1 :
         (df_gen1[j]["fitness"] = df_elite[i]["fitness"]
            /\ df_gen1[j] \notin Range(df_elite))
           => df_elite[i]["label"] < df_gen1[j]["label"]
    /\ best_universe = loc(df_gen1, idxmax(df_gen1, "fitness"))

====
